---- MODULE Spec2Model ----
(***************************************************************************)
(* LiteVSenvLauncher: the interactive menu loop of LiteVSenvLauncher.py,   *)
(* its environment registry under ~/.vsenv, the archive import of          *)
(* create_vscode, the launch options of open_vscode and the calls to the   *)
(* external helper vsenv.                                                  *)
(*                                                                         *)
(* One step of the model is the code that runs between two blocking calls: *)
(* from one input() prompt (or one subprocess.run) to the next.            *)
(* Text is modelled by TLA+ strings, inspected character by character.     *)
(***************************************************************************)
EXTENDS Integers, Sequences, FiniteSets, TLC

VARIABLES
    pc,         \* position of the single thread of control
    op,         \* the menu entry being executed ("" at the menu)
    dirs,       \* directories under ~/.vsenv, as paths relative to it (<<>> is ~/.vsenv)
    files,      \* regular files extracted under ~/.vsenv, as relative paths
    cfgFile,    \* ~/.vsenv/last_options.json
    logExists,  \* whether ~/.vsenv/launcher.log exists
    logged,     \* lines appended to launcher.log by the latest operation
    zips,       \* create_vscode: the VSCode*.zip files found in the working directory
    zip_path,   \* create_vscode: the chosen archive path (None until chosen)
    env_name,   \* create_vscode: the name typed at the name prompt
    envs,       \* open_vscode / remove_vscode: the list printed for selection
    env,        \* open_vscode / remove_vscode: the selected environment
    last,       \* open_vscode: the options loaded from last_options.json
    opts,       \* open_vscode: the options of this launch
    k,          \* open_vscode: index of the option being prompted (0 outside the loop)
    cmd,        \* argv handed to subprocess.run (<<>> when no helper is running)
    exc,        \* exception propagating out of the operation ("" when none)
    msg,        \* the last status message the latest operation printed
    hist        \* history: imports and confirmed removals since start, oldest first

vars == <<pc, op, dirs, files, cfgFile, logExists, logged, zips, zip_path, env_name,
          envs, env, last, opts, k, cmd, exc, msg, hist>>

store == <<dirs, files, cfgFile, logExists>>
locals == <<zips, zip_path, env_name, envs, env, last, opts, k>>

\* Longest history of registry operations that is recorded; longer ones are
\* replaced by TooLong.
MaxHist == 3

-----------------------------------------------------------------------------
(* Text helpers: str methods used by the launcher.                          *)

Chr(s, i) == SubSeq(s, i, i)

\* ASCII characters used by the model, in code point order (str comparison).
AsciiOrder == " \"-./0123456789ABCDEFGHIJKLMNOPQRSTUVWXYZ_abcdefghijklmnopqrstuvwxyz"

CodePoint(c) == CHOOSE i \in 1..Len(AsciiOrder) : Chr(AsciiOrder, i) = c

IsSpace(c) == c \in {" ", "\t", "\n"}

\* Positions of s holding a character other than the stripped ones
Kept(s, stripped) == {i \in 1..Len(s) : Chr(s, i) \notin stripped}

Min(S) == CHOOSE x \in S : \A y \in S : x <= y
Max(S) == CHOOSE x \in S : \A y \in S : y <= x

\* s.strip(chars): s without the leading and trailing characters of the set
strip_set(s, stripped) ==
    IF Kept(s, stripped) = {} THEN ""
    ELSE SubSeq(s, Min(Kept(s, stripped)), Max(Kept(s, stripped)))

\* s.strip()
strip(s) == strip_set(s, {" ", "\t", "\n"})

\* s.strip(c)
strip_char(s, c) == strip_set(s, {c})

Digits == "0123456789"

DigitValue(c) == CHOOSE d \in 0..9 : Chr(Digits, d + 1) = c

isdigit(s) == Len(s) > 0 /\ \A i \in 1..Len(s) : \E d \in 1..10 : Chr(Digits, d) = Chr(s, i)

\* The number written by the first n characters of s
RECURSIVE int_of(_, _)
int_of(s, n) == IF n = 0 THEN 0 ELSE 10 * int_of(s, n - 1) + DigitValue(Chr(s, n))

int(s) == int_of(s, Len(s))

Upper == "ABCDEFGHIJKLMNOPQRSTUVWXYZ"
Lower == "abcdefghijklmnopqrstuvwxyz"

lower_char(c) ==
    IF \E i \in 1..26 : Chr(Upper, i) = c
    THEN Chr(Lower, CHOOSE i \in 1..26 : Chr(Upper, i) = c)
    ELSE c

\* s.lower(), from position i on
RECURSIVE lower_from(_, _)
lower_from(s, i) == IF i > Len(s) THEN "" ELSE lower_char(Chr(s, i)) \o lower_from(s, i + 1)

lower(s) == lower_from(s, 1)

startswith(s, p) == Len(p) <= Len(s) /\ SubSeq(s, 1, Len(p)) = p

has_whitespace(s) == \E i \in 1..Len(s) : IsSpace(Chr(s, i))

\* s.split(sep): the pieces between the separators, empty pieces included.
\* Cut j is the position of the j-th separator; cut 0 is 0 and the last is Len(s) + 1.
SepAt(s, sep) == {i \in 1..Len(s) : Chr(s, i) = sep}

Cut(s, sep, j) ==
    IF j = 0 THEN 0
    ELSE IF j > Cardinality(SepAt(s, sep)) THEN Len(s) + 1
    ELSE CHOOSE i \in SepAt(s, sep) : Cardinality({h \in SepAt(s, sep) : h < i}) = j - 1

split(s, sep) ==
    [j \in 1..(Cardinality(SepAt(s, sep)) + 1) |->
        SubSeq(s, Cut(s, sep, j - 1) + 1, Cut(s, sep, j) - 1)]

\* str < str, by code points: they differ first at position i, or s is a proper prefix
str_less(s, t) ==
    \/ Len(s) < Len(t) /\ SubSeq(t, 1, Len(s)) = s
    \/ \E i \in 1..Len(s) :
          /\ i <= Len(t)
          /\ SubSeq(s, 1, i - 1) = SubSeq(t, 1, i - 1)
          /\ Chr(s, i) # Chr(t, i)
          /\ CodePoint(Chr(s, i)) < CodePoint(Chr(t, i))

\* sorted(set of str): the i-th element has i - 1 smaller ones
sorted(S) ==
    [i \in 1..Cardinality(S) |->
        CHOOSE x \in S : Cardinality({y \in S : str_less(y, x)}) = i - 1]

Range(f) == {f[i] : i \in DOMAIN f}

IsPrefix(p, q) == Len(p) <= Len(q) /\ SubSeq(q, 1, Len(p)) = p

Prefixes(p) == {SubSeq(p, 1, n) : n \in 0..Len(p)}

-----------------------------------------------------------------------------
(* Paths                                                                    *)

\* The segments of a relative path: pathlib drops empty and "." segments.
Parts(s) == SelectSeq(split(s, "/"), LAMBDA x : x \notin {"", "."})

\* VSCodeManager.VSEnv / name, relative to ~/.vsenv
Target(name) == Parts(name)

\* Path.exists() for a path under ~/.vsenv
cfg_path == <<"last_options.json">>
log_path == <<"launcher.log">>

exists(p) ==
    \/ p \in dirs
    \/ p \in files
    \/ p = cfg_path /\ cfgFile.kind # "absent"
    \/ p = log_path /\ logExists

\* VSCodeManager.list_envs
list_envs ==
    IF <<>> \notin dirs THEN <<>>
    ELSE sorted({d[1] : d \in {x \in dirs : Len(x) >= 1 /\ x[Len(x)] = "vscode"}})

-----------------------------------------------------------------------------
(* Python values held in the option dictionaries: a bool or a str.          *)

Bool(b) == [b |-> b]
Str(s) == [s |-> s]
None == "<None>"

is_str(v) == DOMAIN v = {"s"}

\* bool(v): a str is true when non-empty
truthy(v) == IF is_str(v) THEN v.s # "" ELSE v.b

\* v == "text" (a bool never equals a str)
eq_str(v, t) == is_str(v) /\ v.s = t

\* v is True
is_true(v) == ~is_str(v) /\ v.b

\* dict, in insertion order: a sequence of <<key, value>>
has_key(d, key) == \E i \in DOMAIN d : d[i][1] = key

get(d, key, default) ==
    IF has_key(d, key) THEN d[CHOOSE i \in DOMAIN d : d[i][1] = key][2] ELSE default

put(d, key, v) ==
    IF has_key(d, key)
    THEN [i \in DOMAIN d |-> IF d[i][1] = key THEN <<key, v>> ELSE d[i]]
    ELSE Append(d, <<key, v>>)

-----------------------------------------------------------------------------
(* The world outside ~/.vsenv: the terminal, the working directory and the  *)
(* helper.  These are the inputs of the model.                              *)

\* input() interrupted by Ctrl+C (KeyboardInterrupt)
CtrlC == "^C"

\* Files the typed paths can name: a path that exists is an archive with the
\* listed members, a file that is no zip archive, or a directory.
Archives == {"VSCode-nested.zip", "VSCode-flat.zip", "vs.zip", "empty.zip"}

namelist(path) ==
    CASE path = "VSCode-nested.zip" -> <<"proj/a.txt", "proj/sub/b.txt">>
      [] path = "VSCode-flat.zip" -> <<"a.txt", "sub/b.txt">>
      [] path = "vs.zip" -> <<"vscode/a.txt", "vscode/sub/b.txt">>
      [] OTHER -> <<>>

FileKind(path) ==
    CASE path \in Archives -> "zip"
      [] path = "bad.zip" -> "badzip"
      [] path = "." -> "dir"
      [] OTHER -> "missing"

\* What Path.cwd().glob("VSCode*.zip") can find
CwdListings == {<<>>, <<"VSCode-nested.zip", "VSCode-flat.zip">>}

MenuInputs == {"1", "2", "3", "4", "5", "6", "7", "8", "", "9", " 3 ", CtrlC}
ChoiceInputs == {"", "1", "2", "5", "vs.zip", "nope.zip", CtrlC}
PathInputs ==
    {"", "\"VSCode-flat.zip\"", "VSCode-nested.zip", "vs.zip", "empty.zip", "bad.zip",
     "nope.zip", CtrlC}
NameInputs == {"", "a", "b", " a", "a b", CtrlC}
SelectInputs == {"", "1", "2", "3", "a", "b", "x", CtrlC}
ConfirmInputs == {"", "y", "Y", "n", CtrlC}
ReturnInputs == {"", CtrlC}
OptionInputs(key) ==
    CASE key = "--proxy" -> {"", "10.0.0.1:8080", CtrlC}
      [] key = "--sandbox" -> {"", "none", "sandbox", CtrlC}
      [] OTHER -> {"", "y", "n", CtrlC}

\* How a run of the helper can end: exit code 0, a non-zero exit code
\* (CalledProcessError), or no vsenv on the path (FileNotFoundError).
HelperResults == {"ok", "nonzero", "notfound"}

\* The valid names among the typed ones: non-empty, no whitespace.
ValidNames == {n \in {strip(x) : x \in NameInputs \ {CtrlC}} : n # "" /\ ~has_whitespace(n)}

-----------------------------------------------------------------------------
(* Helpers of the launcher                                                  *)

\* safe_input: input(prompt).strip(), or "" on Ctrl+C
safe_input(raw) == IF raw = CtrlC THEN "" ELSE strip(raw)

\* str(Path(text)): the empty path is the working directory
PathOf(text) == IF text = "" THEN "." ELSE text

\* Path(text).exists() for a path outside ~/.vsenv
path_exists(text) == FileKind(PathOf(text)) # "missing"

\* log(): appends one line to launcher.log; silently does nothing when
\* ~/.vsenv does not exist.  Applied to the directories as they are at the call.
log_lines(ds, lines, level, text) == IF <<>> \in ds THEN Append(lines, <<level, text>>) ELSE lines
log_exists(ds, was) == was \/ <<>> \in ds

-----------------------------------------------------------------------------
(* Archive import: the try block of create_vscode                           *)

\* zf.extract(m, path=target) for every member: the member's file (or
\* directory, for a member ending in "/") and every directory above it.
member_path(target, m) == target \o Parts(m)

is_dir_member(m) == Len(m) > 0 /\ Chr(m, Len(m)) = "/"

extract_dirs(ds, target, members) ==
    ds \cup UNION {IF is_dir_member(members[i])
                   THEN Prefixes(member_path(target, members[i]))
                   ELSE Prefixes(member_path(target, members[i]))
                        \ {member_path(target, members[i])} : i \in DOMAIN members}

extract_files(fs, target, members) ==
    fs \cup {member_path(target, members[i]) :
                i \in {j \in DOMAIN members : ~is_dir_member(members[j])}}

\* Path.rename(src, dst) of a directory: OSError when dst lies inside src or
\* dst exists already; otherwise the subtree moves.
rename_fails(ds, fs, src, dst) == IsPrefix(src, dst) \/ dst \in ds \/ dst \in fs

moved(p, src, dst) == IF IsPrefix(src, p) THEN dst \o SubSeq(p, Len(src) + 1, Len(p)) ELSE p

\* members[0].split("/")[0]
root_of(members) == split(members[1], "/")[1]

\* all(m.startswith(root + "/") for m in members)
has_nesting(members) ==
    \A i \in DOMAIN members : startswith(members[i], root_of(members) \o "/")

\* target / root if has_nesting else target
vscode_src(target, members) ==
    IF has_nesting(members) THEN target \o Parts(root_of(members)) ELSE target

vscode_dst(target) == target \o <<"vscode">>

\* The outcome of lines 116-126 on the archive at path zp: whether they ran
\* to the end without an exception, and the tree they leave.
import_archive(zp, target) ==
    IF FileKind(zp) # "zip" \/ namelist(zp) = <<>>
    THEN \* ZipFile() raises on a directory or a corrupt file, members[0] on no member
         [ok |-> FALSE, dirs |-> dirs, files |-> files]
    ELSE LET members == namelist(zp)
             ds == extract_dirs(dirs, target, members)
             fs == extract_files(files, target, members)
             src == vscode_src(target, members)
             dst == vscode_dst(target)
         IN  IF src = dst THEN [ok |-> TRUE, dirs |-> ds, files |-> fs]
             ELSE IF rename_fails(ds, fs, src, dst) THEN [ok |-> FALSE, dirs |-> ds, files |-> fs]
             ELSE [ok |-> TRUE,
                   dirs |-> {moved(p, src, dst) : p \in ds},
                   files |-> {moved(p, src, dst) : p \in fs}]

\* shutil.rmtree(VSEnv / name)
rmtree(S, name) == {p \in S : ~IsPrefix(Target(name), p)}

-----------------------------------------------------------------------------
(* Launch options: open_vscode lines 155-187                                *)

\* The option table of the prompt loop: key and hard default
OPTIONS ==
    << <<"--host", Bool(FALSE)>>, <<"--mac", Bool(FALSE)>>, <<"--proxy", Str("")>>,
       <<"--sandbox", Str("none")>>, <<"--augment", Bool(FALSE)>> >>

\* last.get(key, hard default)
default_of(lst, i) == get(lst, OPTIONS[i][1], OPTIONS[i][2])

\* val = safe_input(...).strip(); if not val: val = default
merged(text, default) == IF text = "" THEN default ELSE Str(text)

\* lines 172-179: the dictionary after option i was answered with text
set_option(o, lst, i, text) ==
    LET key == OPTIONS[i][1]
        default == default_of(lst, i)
        val == merged(text, default)
    IN  IF key = "--sandbox" THEN (IF ~eq_str(val, "none") THEN put(o, key, val) ELSE o)
        ELSE IF key = "--proxy" THEN (IF truthy(val) THEN put(o, key, val) ELSE o)
        ELSE put(o, key, Bool(eq_str(val, "y") \/ (~is_str(default) /\ eq_str(val, ""))))

\* json.dumps(opts), the text of last_options.json after a launch
json_dumps(o) == [kind |-> "json", val |-> o]

\* A write that never reaches the file
write_text_skipped(old, text) == old

\* cfg_file.write_text(text): the file holds text, whatever it held
write_text(old, text) == text

\* json.loads accepts the text of the file
json_ok(f) == f.kind = "json"

\* An item that adds its key only, whatever its value
flag_args_key_only(key, v) == IF truthy(v) THEN <<key>> ELSE <<>>

\* lines 184-187: what one item of opts adds to the command
flag_args(key, v) ==
    IF is_true(v) THEN <<key>>
    ELSE IF truthy(v) THEN <<key, v.s>>
    ELSE <<>>

RECURSIVE flags(_)
flags(items) ==
    IF items = <<>> THEN <<>>
    ELSE flag_args(Head(items)[1], Head(items)[2]) \o flags(Tail(items))

\* line 182-187
build_cmd(e, o) == <<"vsenv", "start", e>> \o flags(o)

\* lines 146-153 / 210-217: the environment a selection names, or None
select(es, choice) ==
    IF isdigit(choice) /\ 1 <= int(choice) /\ int(choice) <= Len(es) THEN es[int(choice)]
    ELSE IF choice \in Range(es) THEN choice
    ELSE None

-----------------------------------------------------------------------------
(* The menu loop and the operations                                         *)

\* main: the menu table, choice -> function
MenuKeys == {"1", "2", "3", "4", "5", "6", "7", "8"}

menu(choice) ==
    CASE choice = "1" -> "list_envs"
      [] choice = "2" -> "create_vscode"
      [] choice = "3" -> "open_vscode"
      [] choice = "4" -> "remove_vscode"
      [] choice = "5" -> "regist_vscode"
      [] choice = "6" -> "logoff_vscode"
      [] choice = "7" -> "reset_vscode"
      [] OTHER -> None

\* regist_vscode / logoff_vscode / reset_vscode: the helper subcommand each passes
simple_action(func) ==
    CASE func = "regist_vscode" -> "regist"
      [] func = "logoff_vscode" -> "logoff"
      [] func = "reset_vscode" -> "rest"

\* main, line 280: except Exception.  The classes raised in the model that
\* derive from Exception.
ExceptionClasses == {"JSONDecodeError", "FileNotFoundError", "CalledProcessError", "OSError"}

\* A handler for failed helper runs only
main_catches_helper_only(e) == e = "CalledProcessError"

main_catches(e) == e \in ExceptionClasses

\* open_vscode, line 193: except subprocess.CalledProcessError
open_catches(e) == e = "CalledProcessError"

\* What subprocess.run(cmd, check=True) raises for a helper result
raised_by(result) ==
    CASE result = "nonzero" -> "CalledProcessError"
      [] result = "notfound" -> "FileNotFoundError"
      [] OTHER -> ""

\* History of registry operations, cut off at MaxHist entries
TooLong == [i \in 1..(MaxHist + 1) |-> <<"...", "">>]
Record(h, e) == IF Len(h) < MaxHist THEN Append(h, e) ELSE TooLong

NoLocals ==
    /\ zips' = <<>>
    /\ zip_path' = None
    /\ env_name' = ""
    /\ envs' = <<>>
    /\ env' = None
    /\ last' = <<>>
    /\ opts' = <<>>
    /\ k' = 0

\* The operation returns and the loop prompts again
ToMenu ==
    /\ pc' = "menu"
    /\ op' = ""
    /\ cmd' = <<>>
    /\ exc' = ""
    /\ NoLocals

Init ==
    /\ pc = "menu"
    /\ op = ""
    /\ files = {}
    /\ \/ dirs = {} /\ cfgFile = [kind |-> "absent"]
       \/ dirs = {<<>>} /\ cfgFile \in {[kind |-> "absent"], [kind |-> "corrupt"]}
    /\ logExists = FALSE
    /\ logged = <<>>
    /\ zips = <<>>
    /\ zip_path = None
    /\ env_name = ""
    /\ envs = <<>>
    /\ env = None
    /\ last = <<>>
    /\ opts = <<>>
    /\ k = 0
    /\ cmd = <<>>
    /\ exc = ""
    /\ msg = ""
    /\ hist = <<>>

\* main, lines 271-284: the answer raw at the menu prompt
main_prompt_on(raw) ==
    /\ pc = "menu"
    /\ IF safe_input(raw) = "8" THEN
           /\ pc' = "exited"
           /\ msg' = "Bye~"
           /\ UNCHANGED <<op, logged>>
       ELSE IF safe_input(raw) \in MenuKeys THEN
           /\ pc' = menu(safe_input(raw))
           /\ op' = menu(safe_input(raw))
           /\ msg' = ""
           /\ logged' = <<>>
       ELSE
           /\ pc' = "menu"
           /\ msg' = "enter 1-8"
           /\ UNCHANGED <<op, logged>>
    /\ UNCHANGED <<store, locals, cmd, exc, hist>>

main_prompt == \E raw \in MenuInputs : main_prompt_on(raw)

\* menu entry 1: list_envs() is called and its result dropped
show_envs ==
    /\ pc = "list_envs"
    /\ Len(list_envs) >= 0
    /\ ToMenu
    /\ UNCHANGED <<store, logged, msg, hist>>

\* main, lines 280-282: an exception leaves the operation
main_except ==
    /\ pc = "main_except"
    /\ IF main_catches(exc)
       THEN /\ msg' = "error"
            /\ logged' = log_lines(dirs, logged, "ERROR", exc)
            /\ logExists' = log_exists(dirs, logExists)
            /\ ToMenu
       ELSE /\ pc' = "crashed"
            /\ UNCHANGED <<op, logged, logExists, locals, cmd, exc, msg>>
    /\ UNCHANGED <<dirs, files, cfgFile, hist>>

\* every "press Enter to return" prompt: the operation returns after it
return_prompt_on(raw) ==
    /\ pc = "return_prompt"
    /\ safe_input(raw) = safe_input(raw)
    /\ ToMenu
    /\ UNCHANGED <<store, logged, msg, hist>>

return_prompt == \E raw \in ReturnInputs : return_prompt_on(raw)

-----------------------------------------------------------------------------
(* create_vscode                                                            *)

\* lines 85-93: the scan of the working directory
create_vscode_scan ==
    /\ pc = "create_vscode"
    /\ \E found \in CwdListings :
        /\ zips' = found
        /\ pc' = IF found # <<>> THEN "create_choice" ELSE "create_path"
    /\ UNCHANGED <<op, store, logged, zip_path, env_name, envs, env, last, opts, k, cmd, exc,
                   msg, hist>>

\* lines 100-103: the archive must exist
create_vscode_archive(zp) ==
    /\ zip_path' = PathOf(zp)
    /\ IF ~path_exists(zp)
       THEN msg' = "file not found" /\ pc' = "return_prompt"
       ELSE msg' = msg /\ pc' = "create_name"

\* lines 93-98: the answer raw to "choose a number or type a path"
create_vscode_choice_on(raw) ==
    /\ pc = "create_choice"
    /\ IF isdigit(safe_input(raw)) /\ 1 <= int(safe_input(raw))
          /\ int(safe_input(raw)) <= Len(zips)
       THEN create_vscode_archive(zips[int(safe_input(raw))])
       ELSE IF safe_input(raw) # "" /\ path_exists(safe_input(raw))
       THEN create_vscode_archive(safe_input(raw))
       ELSE pc' = "create_path" /\ UNCHANGED <<msg, zip_path>>
    /\ UNCHANGED <<op, store, logged, zips, env_name, envs, env, last, opts, k, cmd, exc, hist>>

create_vscode_choice == \E raw \in ChoiceInputs : create_vscode_choice_on(raw)

\* line 99: the answer raw to "archive path"
create_vscode_path_on(raw) ==
    /\ pc = "create_path"
    /\ create_vscode_archive(strip_char(safe_input(raw), "\""))
    /\ UNCHANGED <<op, store, logged, zips, env_name, envs, env, last, opts, k, cmd, exc, hist>>

create_vscode_path == \E raw \in PathInputs : create_vscode_path_on(raw)

\* line 105: the name prompt is repeated while this holds
name_rejected(name) == name = "" \/ has_whitespace(name)

\* A conflict test that looks for a regular file only
name_taken_file_only(name) == Target(name) \in files

\* line 110: target.exists()
name_taken(name) == exists(Target(name))

\* lines 105-113: the answer raw at the name prompt
create_vscode_name_on(raw) ==
    /\ pc = "create_name"
    /\ env_name' = safe_input(raw)
    /\ IF name_rejected(safe_input(raw)) THEN
           /\ pc' = "create_name"
           /\ msg' = IF safe_input(raw) = "" THEN "name empty" ELSE msg
       ELSE IF name_taken(safe_input(raw)) THEN
           /\ pc' = "return_prompt"
           /\ msg' = "env exists"
       ELSE
           /\ pc' = "create_import"
           /\ msg' = "extracting"
    /\ UNCHANGED <<op, store, logged, zips, zip_path, envs, env, last, opts, k, cmd, exc, hist>>

create_vscode_name == \E raw \in NameInputs : create_vscode_name_on(raw)

\* The archive is one the import is meant to succeed on
well_formed(zp) == FileKind(zp) = "zip" /\ namelist(zp) # <<>>

\* lines 115-132: the import, its message and its log line
create_vscode_import ==
    /\ pc = "create_import"
    /\ \E r \in {import_archive(zip_path, Target(env_name))} :
        /\ dirs' = r.dirs
        /\ files' = r.files
        /\ msg' = IF r.ok THEN "env created" ELSE "create failed"
        /\ logged' = IF r.ok THEN log_lines(r.dirs, logged, "INFO", "Created env")
                     ELSE log_lines(r.dirs, logged, "ERROR", "traceback")
        /\ logExists' = log_exists(r.dirs, logExists)
    /\ hist' = IF well_formed(zip_path) THEN Record(hist, <<"create", env_name>>) ELSE hist
    /\ pc' = "return_prompt"
    /\ UNCHANGED <<op, cfgFile, zips, zip_path, env_name, envs, env, last, opts, k, cmd, exc>>

-----------------------------------------------------------------------------
(* open_vscode                                                              *)

\* lines 137-145
open_vscode_begin ==
    /\ pc = "open_vscode"
    /\ envs' = list_envs
    /\ IF list_envs = <<>>
       THEN msg' = "no envs" /\ pc' = "return_prompt"
       ELSE msg' = msg /\ pc' = "open_select"
    /\ UNCHANGED <<op, store, logged, zips, zip_path, env_name, env, last, opts, k, cmd, exc,
                   hist>>

\* lines 145-160: the selection raw, then the load of last_options.json
open_vscode_select_on(raw) ==
    /\ pc = "open_select"
    /\ env' = select(envs, safe_input(raw))
    /\ IF select(envs, safe_input(raw)) = None THEN
           /\ msg' = "invalid choice"
           /\ pc' = "return_prompt"
           /\ UNCHANGED <<last, k, exc>>
       ELSE IF exists(cfg_path) /\ ~json_ok(cfgFile) THEN
           /\ exc' = "JSONDecodeError"
           /\ pc' = "main_except"
           /\ UNCHANGED <<last, k, msg>>
       ELSE
           /\ last' = IF exists(cfg_path) THEN cfgFile.val ELSE <<>>
           /\ k' = 1
           /\ pc' = "open_option"
           /\ UNCHANGED <<exc, msg>>
    /\ UNCHANGED <<op, store, logged, zips, zip_path, env_name, envs, opts, cmd, hist>>

open_vscode_select == \E raw \in SelectInputs : open_vscode_select_on(raw)

\* lines 162-191: the answer raw in the option loop; after the last one the
\* options are saved, the command built and the helper started
open_vscode_option_on(raw) ==
    /\ pc = "open_option"
    /\ opts' = set_option(opts, last, k, safe_input(raw))
    /\ IF k < Len(OPTIONS) THEN
           /\ k' = k + 1
           /\ pc' = "open_option"
           /\ UNCHANGED <<cfgFile, cmd, msg>>
       ELSE
           /\ k' = 0
           /\ cfgFile' = write_text(cfgFile, json_dumps(opts'))
           /\ cmd' = build_cmd(env, opts')
           /\ msg' = "starting"
           /\ pc' = "open_run"
    /\ UNCHANGED <<op, dirs, files, logExists, logged, zips, zip_path, env_name, envs, env,
                   last, exc, hist>>

open_vscode_option ==
    /\ pc = "open_option"
    /\ \E raw \in OptionInputs(OPTIONS[k][1]) : open_vscode_option_on(raw)

\* lines 191-196: subprocess.run(cmd, check=True) ends with result
open_vscode_run_on(result) ==
    /\ pc = "open_run"
    /\ IF raised_by(result) = "" THEN
           /\ logged' = log_lines(dirs, logged, "INFO", "Started")
           /\ logExists' = log_exists(dirs, logExists)
           /\ ToMenu
           /\ UNCHANGED msg
       ELSE IF open_catches(raised_by(result)) THEN
           /\ msg' = "start failed"
           /\ logged' = log_lines(dirs, logged, "ERROR", "traceback")
           /\ logExists' = log_exists(dirs, logExists)
           /\ pc' = "return_prompt"
           /\ cmd' = <<>>
           /\ UNCHANGED <<op, locals, exc>>
       ELSE
           /\ exc' = raised_by(result)
           /\ pc' = "main_except"
           /\ cmd' = <<>>
           /\ UNCHANGED <<op, locals, msg, logged, logExists>>
    /\ UNCHANGED <<dirs, files, cfgFile, hist>>

open_vscode_run == \E result \in HelperResults : open_vscode_run_on(result)

-----------------------------------------------------------------------------
(* remove_vscode                                                            *)

\* lines 201-209
remove_vscode_begin ==
    /\ pc = "remove_vscode"
    /\ envs' = list_envs
    /\ IF list_envs = <<>>
       THEN msg' = "no envs to remove" /\ pc' = "return_prompt"
       ELSE msg' = msg /\ pc' = "remove_select"
    /\ UNCHANGED <<op, store, logged, zips, zip_path, env_name, env, last, opts, k, cmd, exc,
                   hist>>

\* lines 209-218: the selection raw
remove_vscode_select_on(raw) ==
    /\ pc = "remove_select"
    /\ env' = select(envs, safe_input(raw))
    /\ IF select(envs, safe_input(raw)) = None
       THEN msg' = "invalid choice" /\ pc' = "return_prompt"
       ELSE msg' = msg /\ pc' = "remove_confirm"
    /\ UNCHANGED <<op, store, logged, zips, zip_path, env_name, envs, last, opts, k, cmd, exc,
                   hist>>

remove_vscode_select == \E raw \in SelectInputs : remove_vscode_select_on(raw)

\* lines 218-229: the confirmation raw; shutil.rmtree either removes the tree
\* (removed) or raises before removing anything (the directory cannot be opened)
remove_vscode_confirm_on(raw, removed) ==
    /\ pc = "remove_confirm"
    /\ IF lower(safe_input(raw)) = "y" THEN
           IF removed THEN
               /\ dirs' = rmtree(dirs, env)
               /\ files' = rmtree(files, env)
               /\ msg' = "removed"
               /\ logged' = log_lines(dirs, logged, "INFO", "Removed env")
               /\ logExists' = log_exists(dirs, logExists)
               /\ hist' = Record(hist, <<"remove", env>>)
           ELSE
               /\ msg' = "remove failed"
               /\ logged' = log_lines(dirs, logged, "ERROR", "traceback")
               /\ logExists' = log_exists(dirs, logExists)
               /\ UNCHANGED <<dirs, files, hist>>
       ELSE
           /\ msg' = "remove cancelled"
           /\ UNCHANGED <<dirs, files, logged, logExists, hist>>
    /\ pc' = "return_prompt"
    /\ UNCHANGED <<op, cfgFile, zips, zip_path, env_name, envs, env, last, opts, k, cmd, exc>>

remove_vscode_confirm ==
    \E raw \in ConfirmInputs, removed \in BOOLEAN : remove_vscode_confirm_on(raw, removed)

-----------------------------------------------------------------------------
(* regist_vscode, logoff_vscode, reset_vscode: _simple_cmd                  *)

\* line 235: the command is built and the helper started
simple_cmd_begin ==
    /\ pc \in {"regist_vscode", "logoff_vscode", "reset_vscode"}
    /\ cmd' = <<"vsenv", simple_action(pc)>>
    /\ pc' = "simple_run"
    /\ UNCHANGED <<op, store, logged, locals, exc, msg, hist>>

\* lines 235-241: the helper ends with result; the bare except catches all
simple_cmd_run_on(result) ==
    /\ pc = "simple_run"
    /\ IF raised_by(result) = "" THEN
           /\ msg' = "done"
           /\ logged' = log_lines(dirs, logged, "INFO", "executed")
       ELSE
           /\ msg' = "command failed"
           /\ logged' = log_lines(dirs, logged, "ERROR", "traceback")
    /\ logExists' = log_exists(dirs, logExists)
    /\ cmd' = <<>>
    /\ pc' = "return_prompt"
    /\ UNCHANGED <<op, dirs, files, cfgFile, locals, exc, hist>>

simple_cmd_run == \E result \in HelperResults : simple_cmd_run_on(result)

-----------------------------------------------------------------------------

Next ==
    \/ main_prompt
    \/ show_envs
    \/ main_except
    \/ return_prompt
    \/ create_vscode_scan
    \/ create_vscode_choice
    \/ create_vscode_path
    \/ create_vscode_name
    \/ create_vscode_import
    \/ open_vscode_begin
    \/ open_vscode_select
    \/ open_vscode_option
    \/ open_vscode_run
    \/ remove_vscode_begin
    \/ remove_vscode_select
    \/ remove_vscode_confirm
    \/ simple_cmd_begin
    \/ simple_cmd_run

Spec == Init /\ [][Next]_vars

-----------------------------------------------------------------------------
(* Properties                                                               *)

\* Number of steps the operation in progress still needs at most to be back
\* at the menu prompt, not counting repeated name prompts.
Rank ==
    CASE pc \in {"menu", "exited", "crashed"} -> 0
      [] pc \in {"return_prompt", "main_except", "list_envs"} -> 1
      [] pc \in {"simple_run", "open_run", "remove_confirm", "create_import"} -> 2
      [] pc \in {"regist_vscode", "logoff_vscode", "reset_vscode", "remove_select",
                 "create_name"} -> 3
      [] pc \in {"remove_vscode", "create_path"} -> 4
      [] pc = "create_choice" -> 5
      [] pc = "create_vscode" -> 6
      [] pc = "open_option" -> 3 + Len(OPTIONS) - k
      [] pc = "open_select" -> 3 + Len(OPTIONS)
      [] pc = "open_vscode" -> 4 + Len(OPTIONS)

C1_Step ==
    /\ pc' # "crashed"
    /\ pc' = "exited" => main_prompt_on("8")
    /\ pc # "menu" => \/ Rank' < Rank
                      \/ pc = "create_name" /\ pc' = "create_name"

C2_CreateCreateRemove ==
    \A n1 \in ValidNames : \A n2 \in ValidNames \ {n1} :
        /\ hist = << <<"create", n1>>, <<"create", n2>> >>
              => {n1, n2} \subseteq Range(list_envs)
        /\ hist = << <<"create", n1>>, <<"create", n2>>, <<"remove", n1>> >>
              => list_envs = <<n2>>

\* The value of option i this launch uses, given its dictionary
used(o, i) == get(o, OPTIONS[i][1], OPTIONS[i][2])

\* C3: an option answered with empty input keeps the persisted value (or the
\* hard default); a non-empty answer overrides it.
C3_EmptyKeepsPersisted ==
    [][/\ open_vscode_option_on("") => used(opts', k) = default_of(last, k)
       /\ \A raw \in {"y", "n"} :
             open_vscode_option_on(raw) /\ OPTIONS[k][1] \notin {"--proxy", "--sandbox"}
                => used(opts', k) = Bool(raw = "y")
       /\ \A raw \in {"10.0.0.1:8080", "sandbox", "none"} :
             open_vscode_option_on(raw) /\ OPTIONS[k][1] \in {"--proxy", "--sandbox"}
                => used(opts', k) = Str(raw)]_vars

\* C4: with last_options.json missing or unparsable, a launch of a selected
\* environment reaches the option prompts with the empty mapping.
C4_LoadNeverRaises ==
    [][pc = "open_select" /\ env' # None /\ cfgFile.kind \in {"absent", "corrupt"}
          => pc' = "open_option" /\ last' = <<>>]_vars

\* C5: after the import of a well-formed archive, nested or flat, into a new
\* environment directory, the marker directory vscode is directly under it.
C5_OneMarkerDir ==
    pc = "return_prompt" /\ msg \in {"env created", "create failed"} /\ well_formed(zip_path)
        => vscode_dst(Target(env_name)) \in dirs

\* C6: the option prompts always end in the save of this launch's options and
\* the start of the helper, in that order, and the saved options stay those of
\* this launch however the helper ends.
C6_SavedBeforeHelper ==
    [][/\ pc = "open_option" => pc' \in {"open_option", "open_run"}
       /\ pc' = "open_run" => cfgFile' = json_dumps(opts') /\ cmd' # <<>>
       /\ pc = "open_run" => cfgFile' = cfgFile
       /\ op' = "open_vscode" /\ msg' \in {"starting", "start failed"}
             => cfgFile' = json_dumps(opts')]_vars

\* C6 witness: the helper exited non-zero and the file holds the options of
\* this launch, which differ from the ones loaded.
C6_Witness ==
    /\ pc = "return_prompt"
    /\ msg = "start failed"
    /\ last = <<>>
    /\ used(opts, 1) = Bool(TRUE)
    /\ cfgFile = json_dumps(opts)

\* C7: a name whose environment exists is answered by the conflict message;
\* nothing is extracted and nothing under ~/.vsenv changes, then or at the
\* prompt that follows.
C7_ConflictLeavesAll ==
    [][/\ pc = "create_name" /\ ~name_rejected(env_name') /\ env_name' \in Range(list_envs)
             => /\ pc' = "return_prompt"
                /\ msg' = "env exists"
                /\ UNCHANGED <<dirs, files, cfgFile, logExists, logged>>
       /\ pc = "return_prompt" => UNCHANGED <<dirs, files, cfgFile, logExists, logged>>]_vars

\* C7 witness: the conflict message for a listed environment
C7_Witness ==
    pc = "return_prompt" /\ msg = "env exists" /\ env_name \in Range(list_envs)

\* The tokens the claim gives an option
ExpectedFlag(i) ==
    IF OPTIONS[i][1] = "--proxy"
    THEN (IF used(opts, i) # Str("") THEN <<"--proxy", used(opts, i).s>> ELSE <<>>)
    ELSE IF OPTIONS[i][1] = "--sandbox"
    THEN (IF used(opts, i) # Str("none") THEN <<"--sandbox", used(opts, i).s>> ELSE <<>>)
    ELSE (IF used(opts, i) = Bool(TRUE) THEN <<OPTIONS[i][1]>> ELSE <<>>)

\* C8: the command is vsenv start <env>, then one token per true boolean
\* option, --proxy <value> iff the proxy is non-empty, --sandbox <mode> iff the
\* mode is not none, and nothing else.
C8_LaunchCommand ==
    pc = "open_run" =>
        cmd = <<"vsenv", "start", env>> \o ExpectedFlag(1) \o ExpectedFlag(2) \o ExpectedFlag(3)
                  \o ExpectedFlag(4) \o ExpectedFlag(5)

\* C8 witness: a launch with a flag, a proxy and a sandbox mode
C8_Witness ==
    /\ pc = "open_run"
    /\ cmd = <<"vsenv", "start", "a", "--host", "--proxy", "10.0.0.1:8080", "--sandbox", "sandbox">>

\* The subcommands of the helper contract
HelperContract == {"create", "start", "remove", "regist", "logoff", "reset"}

\* C9: every command handed to the helper names a subcommand of the contract.
C9_HelperContract == cmd # <<>> => cmd[2] \in HelperContract

\* A prompt of an operation is answered with Ctrl+C
Cancel ==
    \/ create_vscode_choice_on(CtrlC)
    \/ create_vscode_path_on(CtrlC)
    \/ create_vscode_name_on(CtrlC)
    \/ open_vscode_select_on(CtrlC)
    \/ open_vscode_option_on(CtrlC)
    \/ remove_vscode_select_on(CtrlC)
    \/ \E removed \in BOOLEAN : remove_vscode_confirm_on(CtrlC, removed)
    \/ return_prompt_on(CtrlC)

\* C10: answering a prompt of an operation with Ctrl+C has no side effect: no
\* file written, no directory created or removed, no helper started.
C10_CancelNoSideEffect ==
    [][Cancel => UNCHANGED <<dirs, files, cfgFile, logExists, logged>> /\ cmd' = <<>>]_vars

====
